---- MODULE Spec2Model ----
(***************************************************************************)
(* Model of the CGPS filter list synchroniser:                             *)
(*   update_filter_lists.js  processLists, fetchDomains,                   *)
(*                           fetchAndProcessUrls                           *)
(*   lib/utils.js            extractDomain, normalizeDomain, fetchRetry    *)
(*   worker/src/index.ts     downloadList                                  *)
(*   lib/api.js              createZeroTrustListsOneByOne,                 *)
(*                           deleteZeroTrustListsOneByOne,                 *)
(*                           upsertZeroTrustRule, ...                      *)
(* A domain is the sequence of its labels: a.ex.com is <<"a","ex","com">>. *)
(***************************************************************************)
EXTENDS Integers, Sequences, FiniteSets, TLC

\* ------------------------------------------------------------------ bounds
MaxRaw == 4
MaxLimit == 4
MaxItemSize == 2
MaxRateLimits == 3
MaxTokens == 3
MaxLines == 2

\* ------------------------------------------------------- domain universe
ExCom == <<"ex", "com">>
AExCom == <<"a", "ex", "com">>
BAExCom == <<"b", "a", "ex", "com">>
OOrg == <<"o", "org">>

Domains == {ExCom, AExCom, BAExCom, OOrg}

Range(s) == {s[i] : i \in 1..Len(s)}

NoDup(s) == \A i, j \in 1..Len(s) : i # j => s[i] # s[j]

\* Sequences over S of length at most n.
RECURSIVE SeqsUpTo(_, _)
SeqsUpTo(S, n) ==
    IF n = 0 THEN {<<>>}
    ELSE LET shorter == SeqsUpTo(S, n - 1)
         IN shorter \cup {Append(s, x) : s \in shorter, x \in S}

\* The iteration orders of a JavaScript Set of at most n elements of S.
OrderedSets(S, n) == {s \in SeqsUpTo(S, n) : NoDup(s)}

VARIABLES
    pc,                  \* position of processLists
    LIST_ITEM_SIZE,      \* lib/constants.js LIST_ITEM_SIZE (chunk size c)
    LIST_ITEM_LIMIT,     \* lib/constants.js LIST_ITEM_LIMIT (ceiling K)
    DEBUG,               \* lib/constants.js DEBUG
    BLOCK_BASED_ON_SNI,  \* lib/constants.js BLOCK_BASED_ON_SNI
    fetched,             \* per feed URL: the promise of fetchDomains(url)
    completed,           \* feed URLs in the order their downloads settled
    merged,              \* the fetchAndProcessUrls calls that have resolved
    allowlist,           \* Set of allowed domains
    rawBlocklist,        \* Set of raw block domains, as its iteration order
    pos,                 \* number of rawBlocklist entries the for-of consumed
    blocklist,           \* const blocklist = new Set()
    domains,             \* const domains = []
    stats,               \* { processed, duplicates, allowed }
    remoteRules,         \* the gateway's rule objects
    remoteLists,         \* the gateway's list objects
    nextId,              \* the id the gateway assigns next
    cgpsRules,           \* rules still to delete
    cgpsLists,           \* lists still to delete
    offset,              \* createZeroTrustListsOneByOne: i, offset into items
    listNumber,          \* createZeroTrustListsOneByOne: chunk number
    totalListNumber,     \* createZeroTrustListsOneByOne: lists remaining
    lists,               \* the re-fetched list objects
    upserting,           \* the rule upsertZeroTrustRule works on
    existingRule,        \* upsertZeroTrustRule: id found by name, 0 if none
    calls,               \* Gateway Client calls issued, in order
    error,               \* what processLists threw
    exitCode,            \* -1 while running
    notifications,       \* sendTelegramNotification calls
    retry,               \* one call of fetchRetry
    norm,                \* normalizeDomain applied to one line, twice
    worker,              \* the worker's downloadList
    request,             \* one call of the worker's requestGateway
    update               \* the FilterStateManager and its /update requests

cfgVars == <<LIST_ITEM_SIZE, LIST_ITEM_LIMIT, DEBUG, BLOCK_BASED_ON_SNI>>
feedVars == <<fetched, completed, merged, allowlist, rawBlocklist>>
loopVars == <<pos, blocklist, domains, stats>>
remoteVars == <<remoteRules, remoteLists, nextId>>
localVars == <<cgpsRules, cgpsLists, offset, listNumber, totalListNumber, lists,
               upserting, existingRule>>
outVars == <<calls, error, exitCode, notifications>>
runVars == <<pc, cfgVars, feedVars, loopVars, remoteVars, localVars, outVars>>
sideVars == <<retry, norm, worker, request, update>>

vars == <<runVars, sideVars>>

\* ------------------------------------------------------------ utils.js
\* extractDomain: parts.slice(i).join(".") for i = 0.., each unshift-ed, so
\* the result runs from the last label alone up to the whole domain.
extractDomain(domain) ==
    [k \in 1..Len(domain) |-> SubSeq(domain, Len(domain) - k + 1, Len(domain))]

\* isValidDomain: one or more "label." followed by a top-level label.
Labels == {"a", "b", "ex", "o", "com", "org"}

TopLevel == {"com", "org"}

isValidDomain(value) ==
    /\ Len(value) >= 2
    /\ \A k \in 1..Len(value) : value[k] \in Labels
    /\ value[Len(value)] \in TopLevel

\* isComment: value.startsWith("#"), "//", "!", "/*" or "*/"
CommentMarkers == {"#", "//", "!", "/*", "*/"}

isComment(value) == value # <<>> /\ Head(value) \in CommentMarkers

\* String.prototype.replace(pattern, ""): the first occurrence of the token
\* run `sub` is removed, later ones stay.
FirstAt(s, sub) ==
    {k \in 1..(Len(s) - Len(sub) + 1) : SubSeq(s, k, k + Len(sub) - 1) = sub}

Min(S) == CHOOSE m \in S : \A n \in S : m <= n

RemoveFirst(s, sub) ==
    IF FirstAt(s, sub) = {} THEN s
    ELSE LET k == Min(FirstAt(s, sub))
         IN SubSeq(s, 1, k - 1) \o SubSeq(s, k + Len(sub), Len(s))

\* helpers.js normalizeDomain.  A line is a sequence of tokens: labels and
\* the markers "@@", "||", "0.0.0.0 ", "^", "$important", "*.".
normalizeDomain(value, isAllowlisting) ==
    LET init == IF isAllowlisting THEN RemoveFirst(value, <<"@@", "||">>)
                ELSE value
        noIp == RemoveFirst(init, <<"0.0.0.0 ">>)
        noBars == RemoveFirst(noIp, <<"||">>)
        noImportant == RemoveFirst(noBars, <<"^", "$important">>)
        noWildcard == RemoveFirst(noImportant, <<"*.">>)
    IN RemoveFirst(noWildcard, <<"^">>)

\* new Set(array): first occurrences, in order.
RECURSIVE SetOf(_)
SetOf(array) ==
    IF array = <<>> THEN <<>>
    ELSE LET front == SetOf(SubSeq(array, 1, Len(array) - 1))
             last == array[Len(array)]
         IN IF last \in Range(front) THEN front ELSE Append(front, last)

\* array.flatMap(set => [...set])
RECURSIVE Flatten(_)
Flatten(sets) == IF sets = <<>> THEN <<>> ELSE Head(sets) \o Flatten(Tail(sets))

RECURSIVE MapNormalize(_, _)
MapNormalize(lines, isAllowlist) ==
    IF lines = <<>> THEN <<>>
    ELSE <<normalizeDomain(Head(lines), isAllowlist)>>
             \o MapNormalize(Tail(lines), isAllowlist)

KeepLine(line) == line # <<>> /\ ~isComment(line)

\* fetchDomains, the body of the try block after a successful response
ParseFeed(text, isAllowlist) ==
    SetOf(SelectSeq(MapNormalize(SelectSeq(text, KeepLine), isAllowlist),
                    isValidDomain))

\* ------------------------------------------------------------ the feeds
AllowUrls == <<"allow1">>
BlockUrls == <<"block1", "block2">>

Urls == Range(AllowUrls) \cup Range(BlockUrls)

\* Response bodies a feed URL may serve, as lines.
FeedTexts ==
    { <<>>,
      << <<"#">>, ExCom, <<"||", "a", "ex", "com", "^">> >>,
      << AExCom, ExCom, AExCom >>,
      << OOrg, <<"0.0.0.0 ", "b", "a", "ex", "com">>, <<"ex">> >>,
      << <<"@@", "||", "ex", "com">>, <<>>, OOrg >> }

Pending == [done |-> FALSE, failed |-> FALSE, set |-> <<>>]

\* fetchDomains(url): the response is ok and its text is parsed
FetchDomains(url) ==
    /\ pc = "fetch"
    /\ ~fetched[url].done
    /\ completed' = Append(completed, url)
    /\ \E text \in FeedTexts :
          fetched' = [fetched EXCEPT ![url] =
              [done |-> TRUE, failed |-> FALSE,
               set |-> ParseFeed(text, url \in Range(AllowUrls))]]
    /\ UNCHANGED <<pc, merged, allowlist, rawBlocklist>>
    /\ UNCHANGED <<sideVars, cfgVars, loopVars, remoteVars, localVars, outVars>>

\* fetchDomains without its catch block: the failure rejects Promise.all.
FetchDomainsThrows(url) ==
    /\ pc = "fetch"
    /\ ~fetched[url].done
    /\ completed' = Append(completed, url)
    /\ fetched' = [fetched EXCEPT ![url] =
                      [done |-> TRUE, failed |-> TRUE, set |-> <<>>]]
    /\ pc' = "failed"
    /\ error' = "fetch"
    /\ UNCHANGED <<merged, allowlist, rawBlocklist, calls, exitCode, notifications>>
    /\ UNCHANGED <<sideVars, cfgVars, loopVars, remoteVars, localVars>>

\* fetchDomains(url): fetch throws or the response is not ok; the catch
\* block logs and returns an empty Set
FetchDomainsFailed(url) ==
    /\ pc = "fetch"
    /\ ~fetched[url].done
    /\ completed' = Append(completed, url)
    /\ fetched' = [fetched EXCEPT ![url] =
                      [done |-> TRUE, failed |-> TRUE, set |-> <<>>]]
    /\ UNCHANGED <<pc, merged, allowlist, rawBlocklist>>
    /\ UNCHANGED <<sideVars, cfgVars, loopVars, remoteVars, localVars, outVars>>

\* Promise.all collects the Sets by the position of their URL; this one
\* collects them as the downloads settle.
UnionAsSettled(urlList) ==
    LET settled == SelectSeq(completed, LAMBDA url : url \in Range(urlList))
    IN SetOf(Flatten([k \in 1..Len(settled) |-> fetched[settled[k]].set]))

\* fetchAndProcessUrls: new Set(domainSets.flatMap(set => [...set]))
Union(urlList) == SetOf(Flatten([k \in 1..Len(urlList) |-> fetched[urlList[k]].set]))

GroupOf(urlList) == IF urlList = AllowUrls THEN "allow" ELSE "block"

\* fetchAndProcessUrls(urlList): its Promise.all has settled and the call
\* resolves with the combined Set, which processLists will bind to
\* allowlist or rawBlocklist.
fetchAndProcessUrls(urlList) ==
    /\ pc = "fetch"
    /\ GroupOf(urlList) \notin merged
    /\ \A k \in 1..Len(urlList) : fetched[urlList[k]].done
    /\ merged' = merged \cup {GroupOf(urlList)}
    /\ IF urlList = AllowUrls
       THEN allowlist' = Range(Union(urlList)) /\ UNCHANGED rawBlocklist
       ELSE rawBlocklist' = Union(urlList) /\ UNCHANGED allowlist
    /\ UNCHANGED <<pc, fetched, completed>>
    /\ UNCHANGED <<sideVars, cfgVars, loopVars, remoteVars, localVars, outVars>>

\* The outer Promise.all has settled: allowlist and rawBlocklist are bound,
\* the per-URL Sets are garbage (what console.error logged stays).
Merge ==
    /\ pc = "fetch"
    /\ merged = {"allow", "block"}
    /\ fetched' = [url \in Urls |-> [fetched[url] EXCEPT !.set = <<>>]]
    /\ completed' = <<>>
    /\ merged' = {}
    /\ pc' = "reconcile"
    /\ UNCHANGED <<allowlist, rawBlocklist>>
    /\ UNCHANGED <<sideVars, cfgVars, loopVars, remoteVars, localVars, outVars>>

\* ------------------------------------------------- processLists, the loop
\* The inner for-of over extractDomain(domain).slice(1): "allowed" or
\* "duplicates" names the counter the first hit increments, "ok" is isOk.
RECURSIVE ScanItems(_, _, _)
ScanItems(items, al, bl) ==
    IF items = <<>> THEN "ok"
    ELSE IF Head(items) \in al THEN "allowed"
    ELSE IF Head(items) \notin bl THEN ScanItems(Tail(items), al, bl)
    ELSE "duplicates"

\* The scan without its allowlist test / without its blocklist test.
AncestorScanBlockOnly(domain, al, bl) ==
    ScanItems(Tail(extractDomain(domain)), {}, bl)

AncestorScanAllowOnly(domain, al, bl) ==
    ScanItems(Tail(extractDomain(domain)), al, {})

AncestorScan(domain, al, bl) == ScanItems(Tail(extractDomain(domain)), al, bl)

\* The outcome of one iteration of the outer for-of for `domain`.
Classify(domain, al, bl) ==
    IF domain \in al THEN "allowed"
    ELSE IF domain \in bl THEN "duplicates"
    ELSE AncestorScan(domain, al, bl)

\* domains.length > LIST_ITEM_LIMIT - LIST_ITEM_SIZE
OverLimit(len, limit, size) == len > limit - size

Current == rawBlocklist[pos + 1]

InLoop == pc = "reconcile" /\ pos < Len(rawBlocklist)

LoopDone == pc = "reconcile" /\ pos = Len(rawBlocklist)

\* SkipAllowed without its continue: the allowed domain is appended too.
SkipAllowedFallsThrough ==
    /\ InLoop
    /\ Classify(Current, allowlist, blocklist) = "allowed"
    /\ stats' = [stats EXCEPT !.processed = @ + 1, !.allowed = @ + 1]
    /\ blocklist' = blocklist \cup {Current}
    /\ domains' = Append(domains, Current)
    /\ pos' = pos + 1
    /\ UNCHANGED pc
    /\ UNCHANGED <<sideVars, cfgVars, feedVars, remoteVars, localVars, outVars>>

\* allowlist.has(domain) or an allowed ancestor: stats.allowed++; skip
SkipAllowed ==
    /\ InLoop
    /\ Classify(Current, allowlist, blocklist) = "allowed"
    /\ stats' = [stats EXCEPT !.processed = @ + 1, !.allowed = @ + 1]
    /\ pos' = pos + 1
    /\ UNCHANGED <<pc, blocklist, domains>>
    /\ UNCHANGED <<sideVars, cfgVars, feedVars, remoteVars, localVars, outVars>>

\* blocklist.has(domain) or a blocked ancestor: stats.duplicates++; skip
SkipDuplicate ==
    /\ InLoop
    /\ Classify(Current, allowlist, blocklist) = "duplicates"
    /\ stats' = [stats EXCEPT !.processed = @ + 1, !.duplicates = @ + 1]
    /\ pos' = pos + 1
    /\ UNCHANGED <<pc, blocklist, domains>>
    /\ UNCHANGED <<sideVars, cfgVars, feedVars, remoteVars, localVars, outVars>>

\* isOk, but the list is over the limit: blocklist.add(domain); continue
DropOverLimit ==
    /\ InLoop
    /\ Classify(Current, allowlist, blocklist) = "ok"
    /\ OverLimit(Len(domains), LIST_ITEM_LIMIT, LIST_ITEM_SIZE)
    /\ stats' = [stats EXCEPT !.processed = @ + 1]
    /\ blocklist' = blocklist \cup {Current}
    /\ pos' = pos + 1
    /\ UNCHANGED <<pc, domains>>
    /\ UNCHANGED <<sideVars, cfgVars, feedVars, remoteVars, localVars, outVars>>

\* Accept with unshift in place of push.
AcceptUnshift ==
    /\ InLoop
    /\ Classify(Current, allowlist, blocklist) = "ok"
    /\ ~OverLimit(Len(domains), LIST_ITEM_LIMIT, LIST_ITEM_SIZE)
    /\ stats' = [stats EXCEPT !.processed = @ + 1]
    /\ blocklist' = blocklist \cup {Current}
    /\ domains' = <<Current>> \o domains
    /\ pos' = pos + 1
    /\ UNCHANGED pc
    /\ UNCHANGED <<sideVars, cfgVars, feedVars, remoteVars, localVars, outVars>>

\* isOk: blocklist.add(domain); domains.push(domain)
Accept ==
    /\ InLoop
    /\ Classify(Current, allowlist, blocklist) = "ok"
    /\ ~OverLimit(Len(domains), LIST_ITEM_LIMIT, LIST_ITEM_SIZE)
    /\ stats' = [stats EXCEPT !.processed = @ + 1]
    /\ blocklist' = blocklist \cup {Current}
    /\ domains' = Append(domains, Current)
    /\ pos' = pos + 1
    /\ UNCHANGED pc
    /\ UNCHANGED <<sideVars, cfgVars, feedVars, remoteVars, localVars, outVars>>

\* ------------------------------------------------------ initial states
\* The gateway before the run: a fresh account, or one that holds the
\* objects of a previous run next to objects of another owner.
DnsRuleName == "CGPS Filter Lists"
SniRuleName == "CGPS Filter Lists - SNI Based Filtering"

PriorRules ==
    << [id |-> 1, name |-> DnsRuleName, traffic |-> "old", filters |-> <<"dns">>],
       [id |-> 2, name |-> "Other Rule", traffic |-> "other", filters |-> <<"dns">>],
       [id |-> 3, name |-> SniRuleName, traffic |-> "old", filters |-> <<"l4">>] >>

PriorLists ==
    << [id |-> 4, name |-> "CGPS List - Chunk 1", items |-> <<OOrg>>],
       [id |-> 5, name |-> "Other List", items |-> <<ExCom>>] >>

RemoteInits ==
    { [rules |-> <<>>, lists |-> <<>>, nextId |-> 10],
      [rules |-> PriorRules, lists |-> PriorLists, nextId |-> 10] }

InitLocals ==
    /\ pos = 0
    /\ blocklist = {}
    /\ domains = <<>>
    /\ stats = [processed |-> 0, duplicates |-> 0, allowed |-> 0]
    /\ cgpsRules = <<>>
    /\ cgpsLists = <<>>
    /\ offset = 0
    /\ listNumber = 1
    /\ totalListNumber = 0
    /\ existingRule = 0
    /\ calls = <<>>
    /\ error = "none"
    /\ exitCode = -1
    /\ notifications = <<>>

\* ------------------------------------------------ utils.js fetchRetry
\* One call of fetchRetry.  retry.attempt is `attempt`; failures counts the
\* passes through the catch block, rateLimited the 429 responses, notified
\* the sendTelegramNotification calls.  attempt is followed down to
\* -MaxRateLimits and the two counters up to their caps; beyond that they
\* keep the value (a lower attempt only lengthens the loop).
MAX_ATTEMPTS == 5

MaxFailures == MAX_ATTEMPTS + MaxRateLimits

RetryIdle ==
    [pc |-> "idle", attempt |-> 0, failures |-> 0, rateLimited |-> 0,
     notified |-> 0]

RetryStart == [RetryIdle EXCEPT !.pc = "fetch"]

UpTo(n, cap) == IF n < cap THEN n + 1 ELSE n

DownTo(n, floor) == IF n > floor THEN n - 1 ELSE n

\* await fetch(...args) resolves with response.ok
FetchOk ==
    /\ retry.pc = "fetch"
    /\ retry' = [retry EXCEPT !.pc = "returned"]
    /\ UNCHANGED <<runVars, norm, worker, request, update>>

\* await fetch(...args) resolves with status 429: wait(RATE_LIMIT_DELAY)
FetchRateLimited ==
    /\ retry.pc = "fetch"
    /\ retry' = [retry EXCEPT !.pc = "cooldown",
                              !.rateLimited = UpTo(@, MaxRateLimits)]
    /\ UNCHANGED <<runVars, norm, worker, request, update>>

\* the cooldown timer fires: attempt--; continue (attempt < MAX_ATTEMPTS
\* holds, the loop fetches again)
Cooldown ==
    /\ retry.pc = "cooldown"
    /\ retry' = [retry EXCEPT !.pc = "fetch",
                              !.attempt = DownTo(@, 0 - MaxRateLimits)]
    /\ UNCHANGED <<runVars, norm, worker, request, update>>

\* fetch rejects, or resolves neither ok nor 429 and the code throws: the
\* catch block counts the attempt, and at MAX_ATTEMPTS notifies and rethrows
FetchFails ==
    /\ retry.pc = "fetch"
    /\ LET attempt == retry.attempt + 1
       IN retry' = [retry EXCEPT
               !.attempt = attempt,
               !.failures = UpTo(@, MaxFailures),
               !.notified = IF attempt = MAX_ATTEMPTS THEN @ + 1 ELSE @,
               !.pc = IF attempt = MAX_ATTEMPTS THEN "thrown" ELSE "backoff"]
    /\ UNCHANGED <<runVars, norm, worker, request, update>>

\* the backoff timer fires; the while condition is evaluated again
Backoff ==
    /\ retry.pc = "backoff"
    /\ retry' = [retry EXCEPT
            !.pc = IF retry.attempt < MAX_ATTEMPTS THEN "fetch" ELSE "returned"]
    /\ UNCHANGED <<runVars, norm, worker, request, update>>

\* ------------------------------------ normalizeDomain on its own output
NormTokens == {"@@", "||", "^", "$important", "*.", "0.0.0.0 ", "ex", "com"}

NormIdle ==
    [pc |-> "idle", value |-> <<>>, isAllowlisting |-> FALSE, once |-> <<>>,
     twice |-> <<>>]

Normalize ==
    /\ norm.pc = "value"
    /\ norm' = [norm EXCEPT
            !.pc = "once",
            !.once = normalizeDomain(norm.value, norm.isAllowlisting)]
    /\ UNCHANGED <<runVars, retry, worker, request, update>>

NormalizeAgain ==
    /\ norm.pc = "once"
    /\ norm' = [norm EXCEPT
            !.pc = "twice",
            !.twice = normalizeDomain(norm.once, norm.isAllowlisting)]
    /\ UNCHANGED <<runVars, retry, worker, request, update>>

\* ------------------------------------- worker/src/index.ts downloadList
\* Lines the worker's feeds may hold.
WorkerLines == {ExCom, AExCom, OOrg, <<"#">>, <<"||", "ex", "com">>}

RECURSIVE Chars(_)
Chars(labels) ==
    IF labels = <<>> THEN 0
    ELSE Len(Head(labels)) + (IF Len(labels) > 1 THEN 1 ELSE 0)
         + Chars(Tail(labels))

\* /^[a-zA-Z0-9][a-zA-Z0-9-_.]+\.[a-zA-Z]{2,}$/.test(line): two or more
\* characters before the last dot, two or more letters after it
DomainPattern(line) ==
    /\ Len(line) >= 2
    /\ \A k \in 1..Len(line) : line[k] \in Labels
    /\ Len(line[Len(line)]) >= 2
    /\ Chars(SubSeq(line, 1, Len(line) - 1)) >= 2

WorkerKeep(line) ==
    /\ line # <<>>
    /\ Head(line) # "#"
    /\ DomainPattern(line)

WorkerIdle == [pc |-> "idle", lists |-> <<>>, domains |-> <<>>]

\* lists.flatMap(split).map(trim).filter(...).filter(...)
downloadList(texts) == SelectSeq(Flatten(texts), WorkerKeep)

DownloadList ==
    /\ worker.pc = "download"
    /\ worker' = [worker EXCEPT !.pc = "returned",
                                !.domains = downloadList(worker.lists)]
    /\ UNCHANGED <<runVars, retry, norm, request, update>>

\* a fetch(url) rejects: Promise.all rejects and downloadList throws
DownloadListThrows ==
    /\ worker.pc = "download"
    /\ worker.lists # <<>>
    /\ worker' = [worker EXCEPT !.pc = "thrown"]
    /\ UNCHANGED <<runVars, retry, norm, request, update>>

\* ------------------------------------ worker/src/api.ts requestGateway
\* One call of requestGateway(path, options).  request.responses is what
\* the fetches so far have given: "ok", "429" or "error" (a thrown fetch or
\* another status).
RETRIES == 3

Methods == {"GET", "POST", "PUT", "DELETE"}

RequestIdle ==
    [pc |-> "idle", method |-> "GET", retries |-> RETRIES, responses |-> <<>>,
     result |-> "none"]

\* response.ok: return response.json(), which parses the body or rejects
RequestOk ==
    /\ request.pc = "fetch"
    /\ \E parsed \in BOOLEAN :
          request' = [request EXCEPT
              !.responses = Append(@, "ok"),
              !.pc = IF parsed THEN "resolved" ELSE "rejected",
              !.result = IF parsed THEN "body" ELSE "error"]
    /\ UNCHANGED <<runVars, retry, norm, worker, update>>

\* status 429: wait for the cooldown
RequestRateLimited ==
    /\ request.pc = "fetch"
    /\ request' = [request EXCEPT !.responses = Append(@, "429"),
                                  !.pc = "cooldown"]
    /\ UNCHANGED <<runVars, retry, norm, worker, update>>

\* After the wait of either branch the while condition is evaluated: with
\* retries left the loop fetches again, without the function runs off its
\* end and the promise resolves with undefined.
AfterWait(retries) ==
    [request EXCEPT !.retries = retries,
                    !.pc = IF retries > 0 THEN "fetch" ELSE "resolved",
                    !.result = IF retries > 0 THEN @ ELSE "undefined"]

\* the cooldown timer fires: retries--; continue
RequestCooldown ==
    /\ request.pc = "cooldown"
    /\ request' = AfterWait(request.retries - 1)
    /\ UNCHANGED <<runVars, retry, norm, worker, update>>

\* fetch throws, or the status is neither ok nor 429 and the code throws:
\* the catch block rethrows when retries is 0, else retries-- and waits 5 s
RequestFails ==
    /\ request.pc = "fetch"
    /\ request' =
          IF request.retries = 0
          THEN [request EXCEPT !.responses = Append(@, "error"),
                               !.pc = "rejected", !.result = "error"]
          ELSE [request EXCEPT !.responses = Append(@, "error"),
                               !.retries = @ - 1, !.pc = "wait"]
    /\ UNCHANGED <<runVars, retry, norm, worker, update>>

\* the 5 s timer fires
RequestWait ==
    /\ request.pc = "wait"
    /\ request' = AfterWait(request.retries)
    /\ UNCHANGED <<runVars, retry, norm, worker, update>>

\* ------------------------------ worker/src/index.ts FilterStateManager
\* The /update requests the Durable Object may receive: one sent by a user
\* through the default export's fetch, one by the cron trigger (scheduled).
Requests == {"manual", "cron"}

\* What storage holds under the key 'status' (lastUpdate left out).
Status(status, message) == [status |-> status, error |-> message]

\* update.pc[r] is where handleUpdate is for request r, update.thrown[r] the
\* message of the error its catch block caught, update.response[r] the
\* status of the Response it returned, 0 while there is none.
UpdateIdle ==
    [status |-> Status("none", "none"),
     telegram |-> FALSE,
     pc |-> [r \in Requests |-> "none"],
     thrown |-> [r \in Requests |-> "none"],
     response |-> [r \in Requests |-> 0]]

\* The catch block without its storage.put.
ThrowUnrecorded(r, message) ==
    [update EXCEPT !.pc[r] = "catchNotify", !.thrown[r] = message]

\* An await inside the try block rejects: the catch block builds
\* errorStatus and stores it.
Throw(r, message) ==
    [update EXCEPT !.status = Status("error", message),
                   !.pc[r] = "catchNotify",
                   !.thrown[r] = message]

\* fetch('/update') arrives: storage.put('status', { status: 'updating' })
\* and the two downloadList calls are started
HandleUpdate(r) ==
    /\ update.pc[r] = "none"
    /\ update' = [update EXCEPT !.status = Status("updating", "none"),
                                !.pc[r] = "download"]
    /\ UNCHANGED <<runVars, retry, norm, worker, request>>

\* Promise.all of the two downloadList calls settles
Download(r) ==
    /\ update.pc[r] = "download"
    /\ \E ok \in BOOLEAN :
          update' = IF ok THEN [update EXCEPT !.pc[r] = "delete"]
                    ELSE Throw(r, "download")
    /\ UNCHANGED <<runVars, retry, norm, worker, request>>

\* deleteExistingRules settles
DeleteExistingRules(r) ==
    /\ update.pc[r] = "delete"
    /\ \E ok \in BOOLEAN :
          update' = IF ok THEN [update EXCEPT !.pc[r] = "create"]
                    ELSE Throw(r, "delete")
    /\ UNCHANGED <<runVars, retry, norm, worker, request>>

\* createNewRules settles; on success storage.put('status', { status:
\* 'idle' }) and sendNotifications is called
CreateNewRules(r) ==
    /\ update.pc[r] = "create"
    /\ \E ok \in BOOLEAN :
          update' = IF ok
                    THEN [update EXCEPT !.status = Status("idle", "none"),
                                        !.pc[r] = "notify"]
                    ELSE Throw(r, "create")
    /\ UNCHANGED <<runVars, retry, norm, worker, request>>

\* sendNotifications of the try block settles: it can only reject when
\* Telegram is configured and its fetch is made
SendNotifications(r) ==
    /\ update.pc[r] = "notify"
    /\ \E ok \in {TRUE} \cup {~update.telegram} :
          update' = IF ok THEN [update EXCEPT !.pc[r] = "returned",
                                              !.response[r] = 200]
                    ELSE Throw(r, "notify")
    /\ UNCHANGED <<runVars, retry, norm, worker, request>>

\* sendNotifications of the catch block settles: return the 500 response,
\* or handleUpdate rejects
CatchNotify(r) ==
    /\ update.pc[r] = "catchNotify"
    /\ \E ok \in {TRUE} \cup {~update.telegram} :
          update' = IF ok THEN [update EXCEPT !.pc[r] = "returned",
                                              !.response[r] = 500]
                    ELSE [update EXCEPT !.pc[r] = "rejected"]
    /\ UNCHANGED <<runVars, retry, norm, worker, request>>

SideIdle ==
    /\ retry = RetryIdle
    /\ norm = NormIdle
    /\ worker = WorkerIdle
    /\ request = RequestIdle
    /\ update = UpdateIdle

\* ------------------------------------------------------- Gateway Client
\* String.prototype.startsWith
startsWith(name, prefix) ==
    Len(name) >= Len(prefix) /\ SubSeq(name, 1, Len(prefix)) = prefix

\* One requestGateway call as the orchestrator sees it: what was asked and
\* whether it resolved (ok) or rejected once fetchRetry gave up.
Call(op, id, name, items, traffic, filters, ok) ==
    [op |-> op, id |-> id, name |-> name, items |-> items,
     traffic |-> traffic, filters |-> filters, ok |-> ok]

Get(path, ok) == Call("GET " \o path, 0, "", <<>>, "", <<>>, ok)

Delete(path, id, ok) == Call("DELETE " \o path, id, "", <<>>, "", <<>>, ok)

\* The orders in which the gateway may return its list objects.
ListingOrders(objects) ==
    IF objects = <<>> THEN {<<>>}
    ELSE {[k \in 1..Len(objects) |-> objects[p[k]]] :
             p \in Permutations(1..Len(objects))}

\* The filter without the name of the SNI rule.
IsCgpsRuleDnsOnly(rule) == rule.name = DnsRuleName

IsCgpsRule(rule) == rule.name = DnsRuleName \/ rule.name = SniRuleName

IsCgpsList(list) == startsWith(list.name, "CGPS List")

\* Math.ceil(n / c)
Ceil(n, c) == (n + c - 1) \div c

\* An empty result reported as a failure.
ReturnEmptyThrows ==
    /\ LoopDone
    /\ Len(domains) = 0
    /\ pc' = "failed"
    /\ error' = "empty"
    /\ UNCHANGED <<calls, exitCode, notifications>>
    /\ UNCHANGED <<sideVars, cfgVars, feedVars, loopVars, remoteVars, localVars>>

\* if (domains.length === 0) return
ReturnEmpty ==
    /\ LoopDone
    /\ Len(domains) = 0
    /\ pc' = "done"
    /\ exitCode' = 0
    /\ UNCHANGED <<calls, error, notifications>>
    /\ UNCHANGED <<sideVars, cfgVars, feedVars, loopVars, remoteVars, localVars>>

\* The steps with the lists deleted before the rules that use them.
StageAfterListsFirst(stage) ==
    CASE stage = "listing" -> "deleteLists"
      [] stage = "deleteLists" -> "deleteRules"
      [] stage = "deleteRules" -> "create"
      [] stage = "create" -> "refetch"

\* The order of the awaited steps of processLists once the final list is
\* known not to be empty.
StageAfter(stage) ==
    CASE stage = "listing" -> "deleteRules"
      [] stage = "deleteRules" -> "deleteLists"
      [] stage = "deleteLists" -> "create"
      [] stage = "create" -> "refetch"

\* Promise.all([getZeroTrustRules(), getZeroTrustLists()]) and the two
\* filters: both requests are issued before either settles.
GetExisting ==
    /\ LoopDone
    /\ Len(domains) # 0
    /\ \E okRules, okLists \in BOOLEAN :
          /\ calls' = calls \o <<Get("/rules", okRules), Get("/lists", okLists)>>
          /\ IF okRules /\ okLists
             THEN /\ \E existingLists \in ListingOrders(remoteLists) :
                        cgpsLists' = SelectSeq(existingLists, IsCgpsList)
                  /\ cgpsRules' = SelectSeq(remoteRules, IsCgpsRule)
                  /\ pc' = StageAfter("listing")
                  /\ UNCHANGED error
             ELSE /\ pc' = "failed"
                  /\ error' = "gateway"
                  /\ UNCHANGED <<cgpsRules, cgpsLists>>
    /\ UNCHANGED <<offset, listNumber, totalListNumber, lists, upserting,
                   existingRule, exitCode, notifications>>
    /\ UNCHANGED <<sideVars, cfgVars, feedVars, loopVars, remoteVars>>

\* deleteZeroTrustRule that logs the error and does not rethrow it.
DeleteRuleSwallows ==
    /\ pc = "deleteRules"
    /\ cgpsRules # <<>>
    /\ LET rule == Head(cgpsRules)
           Others(r) == r.id # rule.id
       IN \E ok \in BOOLEAN :
            /\ calls' = Append(calls, Delete("/rules", rule.id, ok))
            /\ remoteRules' = IF ok THEN SelectSeq(remoteRules, Others)
                              ELSE remoteRules
            /\ cgpsRules' = Tail(cgpsRules)
            /\ UNCHANGED <<pc, error>>
    /\ UNCHANGED <<remoteLists, nextId, cgpsLists, offset, listNumber,
                   totalListNumber, lists, upserting, existingRule, exitCode,
                   notifications>>
    /\ UNCHANGED <<sideVars, cfgVars, feedVars, loopVars>>

\* for (const rule of cgpsRules) await deleteZeroTrustRule(rule.id)
DeleteRule ==
    /\ pc = "deleteRules"
    /\ cgpsRules # <<>>
    /\ LET rule == Head(cgpsRules)
           Others(r) == r.id # rule.id
       IN \E ok \in BOOLEAN :
            /\ calls' = Append(calls, Delete("/rules", rule.id, ok))
            /\ IF ok
               THEN /\ remoteRules' = SelectSeq(remoteRules, Others)
                    /\ cgpsRules' = Tail(cgpsRules)
                    /\ UNCHANGED <<pc, error>>
               ELSE /\ pc' = "failed"
                    /\ error' = "gateway"
                    /\ UNCHANGED <<remoteRules, cgpsRules>>
    /\ UNCHANGED <<remoteLists, nextId, cgpsLists, offset, listNumber,
                   totalListNumber, lists, upserting, existingRule, exitCode,
                   notifications>>
    /\ UNCHANGED <<sideVars, cfgVars, feedVars, loopVars>>

\* the rules are gone (or there were none): go on to the lists
DeleteRulesDone ==
    /\ pc = "deleteRules"
    /\ cgpsRules = <<>>
    /\ pc' = StageAfter("deleteRules")
    /\ UNCHANGED <<sideVars, cfgVars, feedVars, loopVars, remoteVars, localVars, outVars>>

\* deleteZeroTrustListsOneByOne: for (const { id, name } of lists)
DeleteList ==
    /\ pc = "deleteLists"
    /\ cgpsLists # <<>>
    /\ LET list == Head(cgpsLists)
           Others(l) == l.id # list.id
       IN \E ok \in BOOLEAN :
            /\ calls' = Append(calls, Delete("/lists", list.id, ok))
            /\ IF ok
               THEN /\ remoteLists' = SelectSeq(remoteLists, Others)
                    /\ cgpsLists' = Tail(cgpsLists)
                    /\ UNCHANGED <<pc, error>>
               ELSE /\ pc' = "failed"
                    /\ error' = "gateway"
                    /\ UNCHANGED <<remoteLists, cgpsLists>>
    /\ UNCHANGED <<remoteRules, nextId, cgpsRules, offset, listNumber,
                   totalListNumber, lists, upserting, existingRule, exitCode,
                   notifications>>
    /\ UNCHANGED <<sideVars, cfgVars, feedVars, loopVars>>

\* The lists of the previous run are not deleted before the new ones are
\* created.
DeleteListsSkipped ==
    /\ pc = "deleteLists"
    /\ totalListNumber' = Ceil(Len(domains), LIST_ITEM_SIZE)
    /\ offset' = 0
    /\ listNumber' = 1
    /\ pc' = StageAfter("deleteLists")
    /\ UNCHANGED <<cgpsRules, cgpsLists, lists, upserting, existingRule>>
    /\ UNCHANGED <<sideVars, cfgVars, feedVars, loopVars, remoteVars, outVars>>

\* the lists are gone (or there were none): enter
\* createZeroTrustListsOneByOne(domains)
DeleteListsDone ==
    /\ pc = "deleteLists"
    /\ cgpsLists = <<>>
    /\ totalListNumber' = Ceil(Len(domains), LIST_ITEM_SIZE)
    /\ offset' = 0
    /\ listNumber' = 1
    /\ pc' = StageAfter("deleteLists")
    /\ UNCHANGED <<cgpsRules, cgpsLists, lists, upserting, existingRule>>
    /\ UNCHANGED <<sideVars, cfgVars, feedVars, loopVars, remoteVars, outVars>>

\* Array.prototype.slice(start, end) with 0 <= start <= end
ArraySlice(items, start, end) ==
    SubSeq(items, start + 1, IF end < Len(items) THEN end ELSE Len(items))

\* The chunk cut one item short.
ChunkShort(items, start, size) == ArraySlice(items, start, start + size - 1)

\* items.slice(i, i + LIST_ITEM_SIZE)
Chunk(items, start, size) == ArraySlice(items, start, start + size)

\* The name built from the count of lists still to create.
ListNameRemaining(number) == "CGPS List - Chunk " \o ToString(totalListNumber)

\* `CGPS List - Chunk ${listNumber}`
ListName(number) == "CGPS List - Chunk " \o ToString(number)

\* The loop that logs a failed create and goes on with the next chunk.
CreateListContinue ==
    /\ pc = "create"
    /\ offset < Len(domains)
    /\ LET chunk == Chunk(domains, offset, LIST_ITEM_SIZE)
           listName == ListName(listNumber)
       IN \E ok \in BOOLEAN :
            /\ calls' = Append(calls,
                   Call("POST /lists", 0, listName, chunk, "", <<>>, ok))
            /\ remoteLists' = IF ok THEN Append(remoteLists,
                          [id |-> nextId, name |-> listName, items |-> chunk])
                              ELSE remoteLists
            /\ nextId' = nextId + 1
            /\ totalListNumber' = totalListNumber - 1
            /\ listNumber' = listNumber + 1
            /\ offset' = offset + LIST_ITEM_SIZE
            /\ UNCHANGED <<pc, error>>
    /\ UNCHANGED <<remoteRules, cgpsRules, cgpsLists, lists, upserting,
                   existingRule, exitCode, notifications>>
    /\ UNCHANGED <<sideVars, cfgVars, feedVars, loopVars>>

\* createZeroTrustListsOneByOne: one iteration of the for loop
CreateList ==
    /\ pc = "create"
    /\ offset < Len(domains)
    /\ LET chunk == Chunk(domains, offset, LIST_ITEM_SIZE)
           listName == ListName(listNumber)
       IN \E ok \in BOOLEAN :
            /\ calls' = Append(calls,
                   Call("POST /lists", 0, listName, chunk, "", <<>>, ok))
            /\ IF ok
               THEN /\ remoteLists' = Append(remoteLists,
                          [id |-> nextId, name |-> listName, items |-> chunk])
                    /\ nextId' = nextId + 1
                    /\ totalListNumber' = totalListNumber - 1
                    /\ listNumber' = listNumber + 1
                    /\ offset' = offset + LIST_ITEM_SIZE
                    /\ UNCHANGED <<pc, error>>
               ELSE /\ pc' = "failed"
                    /\ error' = "gateway"
                    /\ UNCHANGED <<remoteLists, nextId, totalListNumber,
                                   listNumber, offset>>
    /\ UNCHANGED <<remoteRules, cgpsRules, cgpsLists, lists, upserting,
                   existingRule, exitCode, notifications>>
    /\ UNCHANGED <<sideVars, cfgVars, feedVars, loopVars>>

\* createZeroTrustListsOneByOne returns: i < items.length is false
CreateListsDone ==
    /\ pc = "create"
    /\ offset >= Len(domains)
    /\ pc' = StageAfter("create")
    /\ UNCHANGED <<sideVars, cfgVars, feedVars, loopVars, remoteVars, localVars, outVars>>

\* const { result: lists } = await getZeroTrustLists()
Refetch ==
    /\ pc = "refetch"
    /\ \E ok \in BOOLEAN :
          /\ calls' = Append(calls, Get("/lists", ok))
          /\ IF ok
             THEN /\ \E result \in ListingOrders(remoteLists) : lists' = result
                  /\ upserting' = "dns"
                  /\ pc' = "upsertGet"
                  /\ UNCHANGED error
             ELSE /\ pc' = "failed"
                  /\ error' = "gateway"
                  /\ UNCHANGED <<lists, upserting>>
    /\ UNCHANGED <<cgpsRules, cgpsLists, offset, listNumber, totalListNumber,
                   existingRule, exitCode, notifications>>
    /\ UNCHANGED <<sideVars, cfgVars, feedVars, loopVars, remoteVars>>

\* lists.reduce((previous, current) => ..., "")
RECURSIVE Reduce(_, _)
Reduce(ls, field) ==
    IF ls = <<>> THEN ""
    ELSE LET previous == Reduce(SubSeq(ls, 1, Len(ls) - 1), field)
             current == ls[Len(ls)]
         IN IF ~startsWith(current.name, "CGPS List") THEN previous
            ELSE previous \o " any(" \o field \o "[*] in $"
                          \o ToString(current.id) \o ") or "

\* String.prototype.slice(0, -4)
Slice(str) == IF Len(str) <= 4 THEN "" ELSE SubSeq(str, 1, Len(str) - 4)

RuleName(which) == IF which = "dns" THEN DnsRuleName ELSE SniRuleName

RuleFilters(which) == IF which = "dns" THEN <<"dns">> ELSE <<"l4">>

RuleExpression(which) ==
    Slice(Reduce(lists, IF which = "dns" THEN "dns.domains" ELSE "net.sni.domains"))

\* existingRules.find(rule => rule.name === name), 0 for undefined
Find(rules, name) ==
    LET hits == {k \in 1..Len(rules) : rules[k].name = name}
    IN IF hits = {} THEN 0 ELSE rules[Min(hits)].id

\* upsertZeroTrustRule: await getZeroTrustRules() and the find
UpsertGet ==
    /\ pc = "upsertGet"
    /\ \E ok \in BOOLEAN :
          /\ calls' = Append(calls, Get("/rules", ok))
          /\ IF ok
             THEN /\ existingRule' = Find(remoteRules, RuleName(upserting))
                  /\ pc' = "upsertWrite"
                  /\ UNCHANGED error
             ELSE /\ pc' = "failed"
                  /\ error' = "gateway"
                  /\ UNCHANGED existingRule
    /\ UNCHANGED <<cgpsRules, cgpsLists, offset, listNumber, totalListNumber,
                   lists, upserting, exitCode, notifications>>
    /\ UNCHANGED <<sideVars, cfgVars, feedVars, loopVars, remoteVars>>

\* where processLists goes on after upsertZeroTrustRule has returned
AfterUpsert ==
    IF upserting = "dns" /\ BLOCK_BASED_ON_SNI
    THEN pc' = "upsertGet" /\ upserting' = "sni"
    ELSE pc' = "notify" /\ UNCHANGED upserting

\* upsertZeroTrustRule after the find: updateZeroTrustRule, or the DEBUG log
\* line that reads existingRule.name of undefined, or createZeroTrustRule
UpsertWrite ==
    /\ pc = "upsertWrite"
    /\ LET name == RuleName(upserting)
           payload == [name |-> name, traffic |-> RuleExpression(upserting),
                       filters |-> RuleFilters(upserting)]
           Updated(rule) == IF rule.id = existingRule
                            THEN [id |-> rule.id] @@ payload ELSE rule
       IN IF existingRule # 0
          THEN \E ok \in BOOLEAN :
                 /\ calls' = Append(calls, Call("PUT /rules", existingRule,
                        name, <<>>, payload.traffic, payload.filters, ok))
                 /\ IF ok
                    THEN /\ remoteRules' =
                              [k \in 1..Len(remoteRules) |-> Updated(remoteRules[k])]
                         /\ AfterUpsert
                         /\ UNCHANGED error
                    ELSE /\ pc' = "failed"
                         /\ error' = "gateway"
                         /\ UNCHANGED <<remoteRules, upserting>>
                 /\ UNCHANGED nextId
          ELSE IF DEBUG
          THEN /\ pc' = "failed"
               /\ error' = "TypeError"
               /\ UNCHANGED <<calls, remoteRules, nextId, upserting>>
          ELSE \E ok \in BOOLEAN :
                 /\ calls' = Append(calls, Call("POST /rules", 0,
                        name, <<>>, payload.traffic, payload.filters, ok))
                 /\ IF ok
                    THEN /\ remoteRules' =
                              Append(remoteRules, [id |-> nextId] @@ payload)
                         /\ nextId' = nextId + 1
                         /\ AfterUpsert
                         /\ UNCHANGED error
                    ELSE /\ pc' = "failed"
                         /\ error' = "gateway"
                         /\ UNCHANGED <<remoteRules, nextId, upserting>>
    /\ UNCHANGED <<remoteLists, cgpsRules, cgpsLists, offset, listNumber,
                   totalListNumber, lists, existingRule, exitCode,
                   notifications>>
    /\ UNCHANGED <<sideVars, cfgVars, feedVars, loopVars>>

\* await sendTelegramNotification("Filter Lists Update Complete ...")
Notify ==
    /\ pc = "notify"
    /\ notifications' = Append(notifications, "complete")
    /\ pc' = "done"
    /\ exitCode' = 0
    /\ UNCHANGED <<calls, error>>
    /\ UNCHANGED <<sideVars, cfgVars, feedVars, loopVars, remoteVars, localVars>>

\* processLists().catch: notify the failure and process.exit(1)
Catch ==
    /\ pc = "failed"
    /\ notifications' = Append(notifications, "failed")
    /\ pc' = "exited"
    /\ exitCode' = 1
    /\ UNCHANGED <<calls, error>>
    /\ UNCHANGED <<sideVars, cfgVars, feedVars, loopVars, remoteVars, localVars>>

\* ------------------------------------------------------ one run of the CLI
Init ==
    /\ pc = "fetch"
    /\ LIST_ITEM_SIZE \in 1..MaxItemSize
    /\ LIST_ITEM_LIMIT \in LIST_ITEM_SIZE..MaxLimit
    /\ DEBUG \in BOOLEAN
    /\ BLOCK_BASED_ON_SNI \in BOOLEAN
    /\ fetched = [url \in Urls |-> Pending]  \* validateEnvironment() has passed
    /\ completed = <<>>
    /\ merged = {}
    /\ allowlist = {}
    /\ rawBlocklist = <<>>
    /\ SideIdle
    /\ \E remote \in RemoteInits :
          /\ remoteRules = remote.rules
          /\ remoteLists = remote.lists
          /\ nextId = remote.nextId
    /\ upserting = "none"
    /\ lists = <<>>
    /\ InitLocals

Next ==
    \/ \E url \in Urls : FetchDomains(url)
    \/ \E url \in Urls : FetchDomainsFailed(url)
    \/ \E urlList \in {AllowUrls, BlockUrls} : fetchAndProcessUrls(urlList)
    \/ Merge
    \/ SkipAllowed
    \/ SkipDuplicate
    \/ DropOverLimit
    \/ Accept
    \/ ReturnEmpty
    \/ GetExisting
    \/ DeleteRule
    \/ DeleteRulesDone
    \/ DeleteList
    \/ DeleteListsDone
    \/ CreateList
    \/ CreateListsDone
    \/ Refetch
    \/ UpsertGet
    \/ UpsertWrite
    \/ Notify
    \/ Catch

Spec == Init /\ [][Next]_vars

\* ------------------------------------- one call of upsertZeroTrustRule
\* The rules the gateway may hold when the function is called, and the
\* lists the caller built the expression from.
RuleSets ==
    {SelectSeq(PriorRules, LAMBDA rule : rule.id \in ids) : ids \in SUBSET {1, 2, 3}}

ListSets ==
    { <<>>,
      << [id |-> 6, name |-> "CGPS List - Chunk 1", items |-> <<ExCom>>] >>,
      << [id |-> 7, name |-> "CGPS List - Chunk 2", items |-> <<OOrg>>],
         [id |-> 5, name |-> "Other List", items |-> <<ExCom>>],
         [id |-> 6, name |-> "CGPS List - Chunk 1", items |-> <<ExCom>>] >> }

InitUpsert ==
    /\ pc = "upsertGet"
    /\ LIST_ITEM_SIZE = 1
    /\ LIST_ITEM_LIMIT = 1
    /\ DEBUG \in BOOLEAN
    /\ BLOCK_BASED_ON_SNI \in BOOLEAN
    /\ upserting = IF BLOCK_BASED_ON_SNI THEN "sni" ELSE "dns"
    /\ fetched = [url \in Urls |-> [done |-> TRUE, failed |-> FALSE, set |-> <<>>]]
    /\ completed = <<>>
    /\ merged = {}
    /\ allowlist = {}
    /\ rawBlocklist = <<>>
    /\ SideIdle
    /\ remoteRules \in RuleSets
    /\ remoteLists \in ListSets
    /\ lists = remoteLists
    /\ nextId = 10
    /\ InitLocals

NextUpsert == UpsertGet \/ UpsertWrite

SpecUpsert == InitUpsert /\ [][NextUpsert]_vars

\* --------------------------- one call of createZeroTrustListsOneByOne
\* items is any array of distinct domains, the empty one included.
InitCreate ==
    /\ pc = "create"
    /\ LIST_ITEM_SIZE \in 1..MaxItemSize
    /\ LIST_ITEM_LIMIT = MaxLimit
    /\ DEBUG = FALSE
    /\ BLOCK_BASED_ON_SNI = FALSE
    /\ fetched = [url \in Urls |-> [done |-> TRUE, failed |-> FALSE, set |-> <<>>]]
    /\ completed = <<>>
    /\ merged = {}
    /\ allowlist = {}
    /\ rawBlocklist = <<>>
    /\ SideIdle
    /\ pos = 0
    /\ blocklist = {}
    /\ domains \in OrderedSets(Domains, MaxRaw)
    /\ stats = [processed |-> 0, duplicates |-> 0, allowed |-> 0]
    /\ remoteRules = <<>>
    /\ remoteLists \in {<<>>, SelectSeq(PriorLists, LAMBDA l : ~IsCgpsList(l))}
    /\ nextId = 10
    /\ cgpsRules = <<>>
    /\ cgpsLists = <<>>
    /\ offset = 0
    /\ listNumber = 1
    /\ totalListNumber = Ceil(Len(domains), LIST_ITEM_SIZE)
    /\ lists = <<>>
    /\ upserting = "none"
    /\ existingRule = 0
    /\ calls = <<>>
    /\ error = "none"
    /\ exitCode = -1
    /\ notifications = <<>>

NextCreate == CreateList \/ CreateListsDone

SpecCreate == InitCreate /\ [][NextCreate]_vars

\* ------------------------------------------- the reconciliation loop alone
InitReconcile ==
    /\ pc = "reconcile"
    /\ LIST_ITEM_SIZE \in 1..MaxItemSize
    /\ LIST_ITEM_LIMIT \in LIST_ITEM_SIZE..MaxLimit
    /\ DEBUG = FALSE
    /\ BLOCK_BASED_ON_SNI = FALSE
    /\ fetched = [url \in Urls |-> [done |-> TRUE, failed |-> FALSE, set |-> <<>>]]
    /\ completed = <<>>
    /\ merged = {}
    /\ SideIdle
    /\ allowlist \in SUBSET Domains
    /\ rawBlocklist \in OrderedSets(Domains, MaxRaw)
    /\ remoteRules = <<>>
    /\ remoteLists = <<>>
    /\ nextId = 10
    /\ upserting = "none"
    /\ lists = <<>>
    /\ InitLocals

NextReconcile == SkipAllowed \/ SkipDuplicate \/ DropOverLimit \/ Accept

SpecReconcile == InitReconcile /\ [][NextReconcile]_vars

\* --------------------------------------- the downloads of processLists
InitFetch ==
    /\ Init
    /\ LIST_ITEM_SIZE = 1
    /\ LIST_ITEM_LIMIT = 1
    /\ ~DEBUG
    /\ ~BLOCK_BASED_ON_SNI
    /\ remoteRules = <<>>

NextFetch ==
    \/ \E url \in Urls : FetchDomains(url)
    \/ \E url \in Urls : FetchDomainsFailed(url)
    \/ \E urlList \in {AllowUrls, BlockUrls} : fetchAndProcessUrls(urlList)
    \/ Merge

SpecFetch == InitFetch /\ [][NextFetch]_vars

\* ------------------------------------------------ the functions alone
\* processLists is not running.
RunIdle ==
    /\ pc = "idle"
    /\ LIST_ITEM_SIZE = 1
    /\ LIST_ITEM_LIMIT = 1
    /\ DEBUG = FALSE
    /\ BLOCK_BASED_ON_SNI = FALSE
    /\ fetched = [url \in Urls |-> Pending]
    /\ completed = <<>>
    /\ merged = {}
    /\ allowlist = {}
    /\ rawBlocklist = <<>>
    /\ remoteRules = <<>>
    /\ remoteLists = <<>>
    /\ nextId = 10
    /\ upserting = "none"
    /\ lists = <<>>
    /\ InitLocals

InitRetry ==
    /\ RunIdle
    /\ request = RequestIdle
    /\ update = UpdateIdle
    /\ retry = RetryStart
    /\ norm = NormIdle
    /\ worker = WorkerIdle

NextRetry == FetchOk \/ FetchRateLimited \/ Cooldown \/ FetchFails \/ Backoff

\* fetch settles and timers fire: a pending step of the loop is taken.
SpecRetry == InitRetry /\ [][NextRetry]_vars /\ WF_vars(NextRetry)

InitNormalize ==
    /\ RunIdle
    /\ request = RequestIdle
    /\ update = UpdateIdle
    /\ retry = RetryIdle
    /\ norm \in {[NormIdle EXCEPT !.pc = "value", !.value = value,
                                  !.isAllowlisting = flag] :
                    value \in SeqsUpTo(NormTokens, MaxTokens), flag \in BOOLEAN}
    /\ worker = WorkerIdle

NextNormalize == Normalize \/ NormalizeAgain

SpecNormalize == InitNormalize /\ [][NextNormalize]_vars

\* FILTER_KV holds no URL, one or two; each serves up to MaxLines lines.
InitDownload ==
    /\ RunIdle
    /\ request = RequestIdle
    /\ update = UpdateIdle
    /\ retry = RetryIdle
    /\ norm = NormIdle
    /\ worker \in {[WorkerIdle EXCEPT !.pc = "download", !.lists = texts] :
                      texts \in SeqsUpTo(SeqsUpTo(WorkerLines, MaxLines), 2)}

NextDownload == DownloadList \/ DownloadListThrows

SpecDownload == InitDownload /\ [][NextDownload]_vars

InitRequest ==
    /\ RunIdle
    /\ retry = RetryIdle
    /\ norm = NormIdle
    /\ worker = WorkerIdle
    /\ request \in {[RequestIdle EXCEPT !.pc = "fetch", !.method = method] :
                       method \in Methods}
    /\ update = UpdateIdle

NextRequest ==
    \/ RequestOk
    \/ RequestRateLimited
    \/ RequestCooldown
    \/ RequestFails
    \/ RequestWait

SpecRequest == InitRequest /\ [][NextRequest]_vars

\* The status stored before is unset, idle or the error of an earlier update.
InitUpdate ==
    /\ RunIdle
    /\ retry = RetryIdle
    /\ norm = NormIdle
    /\ worker = WorkerIdle
    /\ request = RequestIdle
    /\ update \in {[UpdateIdle EXCEPT !.status = stored, !.telegram = telegram] :
                      stored \in {Status("none", "none"), Status("idle", "none"),
                                  Status("error", "create")},
                      telegram \in BOOLEAN}

NextUpdate ==
    \/ \E r \in Requests : HandleUpdate(r)
    \/ \E r \in Requests : Download(r)
    \/ \E r \in Requests : DeleteExistingRules(r)
    \/ \E r \in Requests : CreateNewRules(r)
    \/ \E r \in Requests : SendNotifications(r)
    \/ \E r \in Requests : CatchNotify(r)

SpecUpdate == InitUpdate /\ [][NextUpdate]_vars

\* ------------------------------------------------- properties of the loop
\* a is a strict ancestor of d: a proper suffix of d's labels, two or more.
StrictAncestor(a, d) ==
    /\ Len(a) >= 2
    /\ Len(a) < Len(d)
    /\ \A k \in 1..Len(a) : a[k] = d[Len(d) - Len(a) + k]

PosIn(s, x) == CHOOSE i \in 1..Len(s) : s[i] = x

\* C1: no domain of the final block list `domains` is in the allow set or
\* has a strict ancestor in the allow set, at any point of the loop.
AllowOverridesBlock ==
    \A i \in 1..Len(domains) :
        /\ domains[i] \notin allowlist
        /\ \A a \in allowlist : ~StrictAncestor(a, domains[i])

\* A finished loop that met a raw domain with an allowed strict ancestor and
\* still accepted something else.
AllowOverridesBlockWitness ==
    /\ LoopDone
    /\ domains # <<>>
    /\ \E d \in Range(rawBlocklist) :
          d \notin allowlist /\ \E a \in allowlist : StrictAncestor(a, d)

\* C2 as stated: the final block list never holds a domain together with a
\* strict descendant of it.
NoRedundantSubdomain ==
    \A i, j \in 1..Len(domains) : ~StrictAncestor(domains[i], domains[j])

\* C2 amended: the final block list never holds a domain followed, later in
\* the list, by a strict descendant of it.
NoLaterSubdomain ==
    \A i, j \in 1..Len(domains) :
        i < j => ~StrictAncestor(domains[i], domains[j])

\* A finished loop whose raw order had an accepted ancestor before one of
\* its descendants.
NoLaterSubdomainWitness ==
    /\ LoopDone
    /\ \E i, j \in 1..Len(rawBlocklist) :
          /\ i < j
          /\ StrictAncestor(rawBlocklist[i], rawBlocklist[j])
          /\ rawBlocklist[i] \in Range(domains)

\* C3 as stated: the length of `domains` is at most
\* LIST_ITEM_LIMIT - LIST_ITEM_SIZE at every point of the loop.
CeilingTruncation == Len(domains) <= LIST_ITEM_LIMIT - LIST_ITEM_SIZE

\* C4: `domains` has no duplicate entry and is a subsequence of the raw
\* block set's iteration order.
NoDupSubsequence ==
    /\ NoDup(domains)
    /\ \A i \in 1..Len(domains) : domains[i] \in Range(rawBlocklist)
    /\ \A i, j \in 1..Len(domains) :
          i < j => PosIn(rawBlocklist, domains[i]) < PosIn(rawBlocklist, domains[j])

\* A finished loop that accepted two or more domains and skipped one.
NoDupSubsequenceWitness ==
    /\ LoopDone
    /\ Len(domains) >= 2
    /\ Len(domains) < Len(rawBlocklist)
\* ------------------------------------------------- properties of the run
Failed(call) == ~call.ok

IsMutation(call) ==
    call.op \in {"DELETE /rules", "DELETE /lists", "POST /lists",
                 "PUT /rules", "POST /rules"}

IsCreateList(call) == call.op = "POST /lists"

SomeFeedFailed == \E url \in Urls : fetched[url].failed

GatewayFailureAborts ==
    /\ [][(\E k \in 1..Len(calls) : Failed(calls[k])) => calls' = calls]_vars
    /\ []((\E k \in 1..Len(calls) : Failed(calls[k])) =>
            /\ pc \in {"failed", "exited"}
            /\ error = "gateway"
            /\ pc = "exited" => exitCode = 1)

\* A run that exited after a list create failed, with an earlier rule
\* delete already committed and never undone.
GatewayFailureAbortsWitness ==
    /\ pc = "exited"
    /\ exitCode = 1
    /\ Len(calls) >= 2
    /\ Failed(calls[Len(calls)])
    /\ IsCreateList(calls[Len(calls)])
    /\ \E k \in 1..(Len(calls) - 1) :
          calls[k].op = "DELETE /rules" /\ calls[k].ok

\* C7: when the final block list is empty after reconciliation the run
\* issues no Gateway Client call and terminates as a success.
EmptyShortCircuits ==
    /\ domains = <<>> => calls = <<>>
    /\ (domains = <<>> /\ pc \notin {"fetch", "reconcile"}) =>
          /\ pc = "done"
          /\ exitCode = 0
          /\ error = "none"

\* A finished run whose raw block set was not empty but reconciled to
\* nothing.
EmptyShortCircuitsWitness ==
    /\ pc = "done"
    /\ domains = <<>>
    /\ rawBlocklist # <<>>

Creates == SelectSeq(calls, IsCreateList)

\* createZeroTrustListsOneByOne(domains) has returned.
CreateReturned ==
    /\ pc \notin {"fetch", "reconcile", "deleteRules", "deleteLists", "create"}
    /\ offset >= Len(domains)

RECURSIVE ConcatItems(_)
ConcatItems(cs) ==
    IF cs = <<>> THEN <<>> ELSE Head(cs).items \o ConcatItems(Tail(cs))

\* C8: n domains with chunk size c give exactly ceil(n/c) create-list
\* calls, every chunk but the last of c items, the last of 1..c items, and
\* the chunks in call order concatenate to the input.
PartitionCorrect ==
    CreateReturned =>
        LET n == Len(domains)
            c == LIST_ITEM_SIZE
            m == Len(Creates)
        IN /\ m * c >= n
           /\ (m - 1) * c < n
           /\ \A k \in 1..(m - 1) : Len(Creates[k].items) = c
           /\ m > 0 => Len(Creates[m].items) \in 1..c
           /\ ConcatItems(Creates) = domains

\* All lists created, two or more of them, the last one not full.
PartitionCorrectWitness ==
    /\ CreateReturned
    /\ Len(Creates) >= 2
    /\ Len(Creates[Len(Creates)].items) < LIST_ITEM_SIZE

NameAndItems(object) == [name |-> object.name, items |-> object.items]

\* C9: creates are issued one at a time in chunk order, each only after the
\* one before has succeeded; when the create of chunk k fails exactly the
\* chunks 1..k-1 exist remotely, no later create is issued and the error is
\* rethrown.
SequentialCreation ==
    LET c == LIST_ITEM_SIZE
        m == Len(Creates)
        made == SelectSeq(Creates, LAMBDA call : call.ok)
        remote == SelectSeq(remoteLists, IsCgpsList)
    IN m > 0 =>
        /\ \A k \in 1..(m - 1) : Creates[k].ok
        /\ \A k \in 1..m :
              /\ (k - 1) * c < Len(domains)
              /\ \A j \in 1..Len(Creates[k].items) :
                    Creates[k].items[j] = domains[(k - 1) * c + j]
        /\ Len(remote) = Len(made)
        /\ \A k \in 1..Len(made) : NameAndItems(remote[k]) = NameAndItems(made[k])
        /\ Failed(Creates[m]) =>
              /\ Len(made) = m - 1
              /\ pc \in {"failed", "exited"}
              /\ error = "gateway"

\* The create of chunk 2 failed with chunk 1 created and a chunk 3 left
\* uncreated.
SequentialCreationWitness ==
    /\ pc = "exited"
    /\ Len(Creates) >= 2
    /\ Failed(Creates[Len(Creates)])
    /\ Len(Creates) * LIST_ITEM_SIZE < Len(domains)
IsRuleWrite(call) == call.op \in {"PUT /rules", "POST /rules"}

RuleWrites == SelectSeq(calls, IsRuleWrite)

\* upsertZeroTrustRule has returned, or has thrown although no Gateway
\* Client call failed.
UpsertEnded == pc = "notify" \/ (pc = "failed" /\ error = "TypeError")

\* C10 as stated: upsertZeroTrustRule issues exactly one mutating call, a PUT
\* of the id of the rule that already had the name, otherwise a POST of a
\* new rule with the name, whatever DEBUG is.  (Rules with an id below 10
\* were there before the call.)
UpsertByName ==
    UpsertEnded =>
        LET name == RuleName(upserting)
            before == {k \in 1..Len(remoteRules) :
                          remoteRules[k].name = name /\ remoteRules[k].id < 10}
        IN /\ Len(RuleWrites) = 1
           /\ RuleWrites[1].name = name
           /\ IF before # {}
              THEN /\ RuleWrites[1].op = "PUT /rules"
                   /\ \E k \in before : remoteRules[k].id = RuleWrites[1].id
              ELSE RuleWrites[1].op = "POST /rules"

\* ------------------------------------------------ properties of fetchRetry
\* C11: whatever the remote side answers, an unbounded run of 429 responses
\* included, fetchRetry eventually returns a response or throws.
FetchRetryTerminates == <>(retry.pc \in {"returned", "thrown"})

\* ------------------------------------------ properties of the expression
RECURSIVE JoinClauses(_, _)
JoinClauses(ids, field) ==
    IF ids = <<>> THEN ""
    ELSE LET clause == "any(" \o field \o "[*] in $" \o ToString(Head(ids)) \o ")"
         IN IF Len(ids) = 1 THEN clause
            ELSE clause \o " or " \o JoinClauses(Tail(ids), field)

SelectedIds ==
    LET selected == SelectSeq(lists, IsCgpsList)
    IN [k \in 1..Len(selected) |-> selected[k].id]

\* C12: the expression submitted for the DNS rule is exactly the clauses
\* any(dns.domains[*] in $id), one per selected list id and in their order,
\* joined by " or ", with no leading, trailing or doubled whitespace.
ExpressionForm ==
    \A k \in 1..Len(calls) :
        (IsRuleWrite(calls[k]) /\ calls[k].name = DnsRuleName
         /\ SelectedIds # <<>>)
        => calls[k].traffic = JoinClauses(SelectedIds, "dns.domains")

\* --------------------------------------------------- properties of stats
Dropped == stats.processed - stats.allowed - stats.duplicates - Len(domains)

\* C13: every raw block domain increments processed exactly once and has
\* exactly one outcome, allowed, duplicate, accepted or dropped at the
\* ceiling; so processed - allowed - duplicates - len(domains) is the number
\* of dropped domains and never negative.
StatsAccounting ==
    [][/\ stats'.processed = stats.processed + 1
       /\ stats'.processed = pos'
       /\ LET allowed == stats'.allowed - stats.allowed
              duplicate == stats'.duplicates - stats.duplicates
              accepted == Len(domains') - Len(domains)
              dropped == Dropped' - Dropped
          IN /\ {allowed, duplicate, accepted, dropped} = {0, 1}
             /\ allowed + duplicate + accepted + dropped = 1
             /\ dropped = 1 =>
                   OverLimit(Len(domains), LIST_ITEM_LIMIT, LIST_ITEM_SIZE)
             /\ accepted = 1 => domains' = Append(domains, Current)
       /\ Dropped' >= 0]_vars

StatsAccountingWitness ==
    /\ LoopDone
    /\ stats.processed >= 4
    /\ stats.allowed > 0
    /\ stats.duplicates > 0
    /\ Len(domains) > 0
    /\ Dropped > 0

\* ----------------------------------------------- properties of the merge
\* The Sets of the URLs of urlList, combined in the order of the URLs: each
\* domain at its first occurrence.
RECURSIVE InUrlOrder(_, _)
InUrlOrder(urlList, seen) ==
    IF urlList = <<>> THEN seen
    ELSE LET set == fetched[Head(urlList)].set
             fresh == SelectSeq(set, LAMBDA d : d \notin Range(seen))
         IN InUrlOrder(Tail(urlList), seen \o fresh)

\* C14: for given feed texts and a given order of the feed URLs the merged
\* allow set and the merged raw block set, its iteration order included, are
\* the same in whatever order the concurrent downloads settle (the loop and
\* the chunks read nothing else of the downloads).
DownloadOrderIndependent ==
    /\ "allow" \in merged => allowlist = Range(InUrlOrder(AllowUrls, <<>>))
    /\ "block" \in merged => rawBlocklist = InUrlOrder(BlockUrls, <<>>)

\* block2 settled before block1, both with domains, and the Sets are merged.
DownloadOrderIndependentWitness ==
    /\ "block" \in merged
    /\ PosIn(completed, "block2") < PosIn(completed, "block1")
    /\ fetched["block1"].set # <<>>
    /\ fetched["block2"].set # <<>>
    /\ Range(fetched["block1"].set) # Range(fetched["block2"].set)
    /\ Len(rawBlocklist) >= 3

\* ------------------------------------------------ properties of the names
\* C15: the k-th create-list call of a run, k from 1 in creation order,
\* carries the name "CGPS List - Chunk k": the names are consecutive,
\* pairwise distinct and depend on the position of the chunk alone.
ChunkNaming ==
    \A k \in 1..Len(Creates) :
        Creates[k].name = "CGPS List - Chunk " \o ToString(k)

ChunkNamingWitness ==
    /\ CreateReturned
    /\ Len(Creates) >= 3
    /\ \A k \in 1..Len(Creates) : Creates[k].ok

\* ---------------------------------------- properties of normalizeDomain
\* C16: normalizeDomain(normalizeDomain(d, f), f) = normalizeDomain(d, f) for
\* every line d and both values of the allowlist flag f.
NormalizeIdempotent == norm.pc = "twice" => norm.twice = norm.once

\* --------------------------------------------- properties of the worker
\* C17: the list the worker's downloadList returns holds no domain twice,
\* whether the domain occurs in two feeds or twice in one.
WorkerDeduplicates == worker.pc = "returned" => NoDup(worker.domains)

\* ------------------------------------------- properties of the two indexes
\* C18: at every point of the loop the block index holds exactly the domains
\* appended to `domains`; a domain dropped at the ceiling is not in it.
BlockIndexIsOutput == pc = "reconcile" => blocklist = Range(domains)

\* The strict ancestors of d that are in the allow set or the block index.
AncestorHits(d) ==
    {a \in allowlist \cup blocklist : StrictAncestor(a, d)}

MostSpecific(hits) == CHOOSE a \in hits : \A b \in hits : Len(b) <= Len(a)

\* C19: for a raw block domain that is in neither index itself, the most
\* specific strict ancestor found in either index decides: allowed is
\* incremented when it is in the allow set, duplicates otherwise, and only
\* that one counter.
AncestorScanOrder ==
    [][(/\ InLoop
        /\ Current \notin allowlist \cup blocklist
        /\ AncestorHits(Current) # {})
       => IF MostSpecific(AncestorHits(Current)) \in allowlist
          THEN /\ stats'.allowed = stats.allowed + 1
               /\ stats'.duplicates = stats.duplicates
          ELSE /\ stats'.duplicates = stats.duplicates + 1
               /\ stats'.allowed = stats.allowed]_vars

\* ------------------------------------------- properties of the call order
\* The step of processLists the k-th Gateway Client call belongs to: the
\* first two calls are the listing of the existing rules and lists.
StepOf(k) ==
    LET op == calls[k].op
    IN IF k <= 2 THEN 0
       ELSE CASE op = "DELETE /rules" -> 1
              [] op = "DELETE /lists" -> 2
              [] op = "POST /lists" -> 3
              [] op = "GET /lists" -> 4
              [] OTHER -> 5

\* C20: in a run with a non-empty final list every deletion of a prior rule
\* precedes the first deletion of a prior list, every list deletion the
\* first list creation, every creation the re-fetch of the lists, and the
\* re-fetch every call of a rule upsert; the DNS rule is written before the
\* SNI rule is.
OrchestrationOrder ==
    /\ \A j, k \in 1..Len(calls) : j < k => StepOf(j) <= StepOf(k)
    /\ \A k \in 1..Len(calls) :
          StepOf(k) = 5 => \E j \in 1..(k - 1) : StepOf(j) = 4 /\ calls[j].ok
    /\ \A j, k \in 1..Len(calls) : (StepOf(j) = 4 /\ StepOf(k) = 4) => j = k
    /\ \A k \in 1..Len(calls) :
          (IsRuleWrite(calls[k]) /\ calls[k].name = SniRuleName)
          => \E j \in 1..(k - 1) :
                /\ IsRuleWrite(calls[j])
                /\ calls[j].name = DnsRuleName
                /\ calls[j].ok

OrchestrationOrderWitness ==
    /\ pc = "done"
    /\ exitCode = 0
    /\ \A step \in 0..5 : \E k \in 1..Len(calls) : StepOf(k) = step
    /\ \E k \in 1..Len(calls) :
          IsRuleWrite(calls[k]) /\ calls[k].name = SniRuleName

\* ------------------------------------------ properties of the end state
\* The expression `expr` holds the reference $id.
Mentions(expr, id) ==
    LET ref == "$" \o ToString(id) \o ")"
    IN \E i \in 1..(Len(expr) - Len(ref) + 1) :
          SubSeq(expr, i, i + Len(ref) - 1) = ref

RemoteCgpsLists == SelectSeq(remoteLists, IsCgpsList)

RemoteDnsRules == SelectSeq(remoteRules, LAMBDA rule : rule.name = DnsRuleName)

\* The gateway holds the chunks of this run and nothing of an earlier one,
\* and one DNS rule over exactly these lists.
Superseded ==
    /\ Len(RemoteCgpsLists) = Len(Creates)
    /\ {NameAndItems(l) : l \in Range(RemoteCgpsLists)}
          = {NameAndItems(c) : c \in Range(Creates)}
    /\ \A l \in Range(RemoteCgpsLists) : \A old \in Range(PriorLists) : l.id # old.id
    /\ Len(RemoteDnsRules) = 1
    /\ \A id \in 1..nextId :
          Mentions(RemoteDnsRules[1].traffic, id)
          <=> \E l \in Range(RemoteCgpsLists) : l.id = id

\* C21 as stated: after every run of processLists that completes
\* successfully the CGPS lists of the gateway are exactly the chunks this run
\* created, one rule named "CGPS Filter Lists" exists and it references
\* exactly those lists.
SupersedingAlways == (pc = "done" /\ exitCode = 0) => Superseded

\* C21: the same after a successful run whose final block list is not empty
\* (a run with an empty final list returns before it touches the gateway).
Superseding == (pc = "done" /\ exitCode = 0 /\ domains # <<>>) => Superseded

SupersedingWitness ==
    /\ pc = "done"
    /\ exitCode = 0
    /\ Len(Creates) >= 2
    /\ \E k \in 1..Len(calls) : calls[k].op = "DELETE /lists"
    /\ \E k \in 1..Len(calls) : calls[k].op = "DELETE /rules"

\* C22: no rule upsert with the empty string as expression is submitted;
\* when the re-fetched lists hold no list with the "CGPS List" prefix, no
\* rule is created or updated.
NoEmptyRule ==
    \A k \in 1..Len(calls) :
        IsRuleWrite(calls[k])
        => calls[k].traffic # "" /\ SelectedIds # <<>>

\* Where the expression `expr` holds the reference $id.
RefAt(expr, id) ==
    LET ref == "$" \o ToString(id) \o ")"
    IN Min({i \in 1..(Len(expr) - Len(ref) + 1) :
               SubSeq(expr, i, i + Len(ref) - 1) = ref})

\* The id the gateway gave the list with this name.
IdOf(name) == (CHOOSE l \in Range(remoteLists) : l.name = name).id

\* C23: the clauses of the rule expression list the ids in the order in
\* which their chunks were created, whatever order the gateway returns the
\* lists in at the re-fetch.
ExpressionFollowsCreation ==
    \A k \in 1..Len(calls) :
        IsRuleWrite(calls[k]) =>
            \A i, j \in 1..Len(Creates) :
                i < j => RefAt(calls[k].traffic, IdOf(Creates[i].name))
                            < RefAt(calls[k].traffic, IdOf(Creates[j].name))

\* ------------------------------------------- properties of the SNI rule
\* Without BLOCK_BASED_ON_SNI only the DNS rule was written and the gateway
\* holds no SNI rule; with it the SNI rule was written after the DNS rule,
\* with the filter l4 and over the same list ids.
SniOutcome ==
    IF ~BLOCK_BASED_ON_SNI
    THEN /\ Len(RuleWrites) = 1
         /\ RuleWrites[1].name = DnsRuleName
         /\ \A rule \in Range(remoteRules) : rule.name # SniRuleName
    ELSE /\ Len(RuleWrites) = 2
         /\ RuleWrites[1].name = DnsRuleName
         /\ RuleWrites[2].name = SniRuleName
         /\ RuleWrites[2].filters = <<"l4">>
         /\ \A id \in 1..nextId :
               Mentions(RuleWrites[1].traffic, id)
               <=> Mentions(RuleWrites[2].traffic, id)
         /\ \E id \in 1..nextId : Mentions(RuleWrites[2].traffic, id)

\* C24 as stated: after every successful run the SNI rule is as
\* BLOCK_BASED_ON_SNI asks: absent, a rule of an earlier run deleted, or
\* written after the DNS rule.
SniRuleNotStaleAlways == (pc = "done" /\ exitCode = 0) => SniOutcome

\* C24: the same after a successful run whose final block list is not empty.
SniRuleNotStale == (pc = "done" /\ exitCode = 0 /\ domains # <<>>) => SniOutcome

\* BLOCK_BASED_ON_SNI is off and the SNI rule of an earlier run was there.
SniRuleNotStaleWitness ==
    /\ pc = "done"
    /\ exitCode = 0
    /\ ~BLOCK_BASED_ON_SNI
    /\ \E k \in 1..Len(calls) :
          /\ calls[k].op = "DELETE /rules"
          /\ \E old \in Range(PriorRules) :
                old.name = SniRuleName /\ old.id = calls[k].id
    /\ Len(RuleWrites) = 1

\* -------------------------------------- properties of the attempt budget
\* C25: 429 responses neither use up nor enlarge the budget: fetchRetry
\* throws after exactly MAX_ATTEMPTS failed attempts that were not rate
\* limited, however many 429 responses came in between, and has sent the
\* failure notification exactly once when it throws.
RetryBudget ==
    /\ retry.failures <= MAX_ATTEMPTS
    /\ retry.pc = "thrown" =>
          retry.failures = MAX_ATTEMPTS /\ retry.notified = 1
    /\ retry.pc # "thrown" => retry.notified = 0

\* ----------------------------------- properties of the worker's request
\* C26: requestGateway makes at most three attempts and resolves only with
\* the parsed body of an ok response; when every attempt fails it rejects.
RequestFailsOnExhaustion ==
    /\ Len(request.responses) <= RETRIES
    /\ request.pc = "resolved" =>
          /\ request.result = "body"
          /\ request.responses[Len(request.responses)] = "ok"

\* ------------------------------------ properties of the worker's status
InProgress(r) == update.pc[r] \in {"download", "delete", "create"}

Alone(r) == \A other \in Requests \ {r} : update.pc[other] = "none"

\* C27: for a single /update request the stored status is 'updating' before
\* any download and while the update runs; when handleUpdate has returned
\* the status is 'idle' exactly if the response is 200 and 'error', with the
\* message of the error, exactly if it is 500; it is never left 'updating'.
UpdateStatusOutcome ==
    \A r \in Requests :
        Alone(r) =>
            /\ InProgress(r) => update.status.status = "updating"
            /\ update.pc[r] = "returned" =>
                  /\ update.response[r] \in {200, 500}
                  /\ update.response[r] = 200
                        <=> update.status = Status("idle", "none")
                  /\ update.response[r] = 500
                        <=> update.status = Status("error", update.thrown[r])
                  /\ update.status.status # "updating"

\* The update had stored 'idle' and its notification failed: 500, 'error'.
UpdateStatusOutcomeWitness ==
    /\ Alone("manual")
    /\ update.pc["manual"] = "returned"
    /\ update.response["manual"] = 500
    /\ update.thrown["manual"] = "notify"

\* C28: however two or more /update requests interleave, an update that is
\* still downloading, deleting or creating implies the stored status
\* 'updating': with 'idle' or 'error' stored no update is in progress.
UpdateStatusExclusive ==
    \A r \in Requests : InProgress(r) => update.status.status = "updating"
====
